---- MODULE Spec2Model ----
(***************************************************************************)
(* Model of scripts/run_phase1_analysis.py: the run orchestrator (main),   *)
(* the status ledger (load_registry, save_registry, update_registry_entry) *)
(* and the success evaluator (check_transform_success).                    *)
(*                                                                         *)
(* A repository is named by a number 1..NumRepos; its clone path, its log  *)
(* path and its analysis directory are all derived from the name, so each  *)
(* is modelled as a function of the name.  A log file is a sequence of     *)
(* words; lower-casing and the `in` test of the evaluator work on words.   *)
(***************************************************************************)
EXTENDS Integers, Sequences, FiniteSets, TLC

\* Number of repositories discover_repos() returns.
NumRepos == 2
\* Number of times the script is started.
MaxRuns == 2

RepoNames == 1..NumRepos

----------------------------------------------------------------------------
(* Words and log texts *)

\* str.lower() on one word
LowerWord(w) ==
    CASE w = "Successfully" -> "successfully"
      [] w = "Completed"    -> "completed"
      [] w = "APPROVED"     -> "approved"
      [] w = "Validation"   -> "validation"
      [] OTHER              -> w

\* log_content.lower()
Lower(text) == [k \in 1..Len(text) |-> LowerWord(text[k])]

\* phrase in log_lower
Contains(text, phrase) ==
    \E s \in 0..(Len(text) - Len(phrase)) :
        \A k \in 1..Len(phrase) : text[s + k] = phrase[k]

success_phrases ==
    << <<"successfully", "completed", "with", "all", "exit", "criteria", "met">>,
       <<"comprehensive", "codebase", "analysis", "transformation", "has", "been",
         "successfully", "completed">>,
       <<"successfully", "completed">>,
       <<"all", "exit", "criteria", "met">> >>

\* A log file that does not exist
NoFile == <<"<no file>">>

LogSuccess   == <<"Successfully", "Completed", "with", "all", "exit", "criteria", "met">>
LogCompleted == <<"transformation", "has", "been", "successfully", "completed">>
LogCriteria  == <<"all", "exit", "criteria", "met">>
LogApproved  == <<"Validation", "status", "APPROVED">>
LogNearMiss  == <<"successfully", "exit", "criteria", "completed">>
LogError     == <<"error", "exit", "status">>
LogEmpty     == <<>>

LogTexts == {LogSuccess, LogCompleted, LogCriteria, LogApproved, LogNearMiss,
             LogError, LogEmpty}

----------------------------------------------------------------------------
(* Success evaluator *)

required_outputs ==
    <<"Documentation", ".aws", ".atx", "transform_output", "analysis_output">>

Markers == {required_outputs[k] : k \in 1..Len(required_outputs)}

\* A clone path that does not exist
NoDir == [exists |-> FALSE, items |-> {}]
Dir(items) == [exists |-> TRUE, items |-> items]

InSeq(x, s) == \E k \in 1..Len(s) : s[k] = x

\* Mutant of success_decision: two folders or Documentation are enough.
success_decision_or(has_log_success, has_validation, output_count, has_docs) ==
    has_log_success \/ (output_count >= 2 \/ has_docs)

\* is_success = has_log_success or (output_count >= 2 and has_docs)
success_decision(has_log_success, has_validation, output_count, has_docs) ==
    has_log_success \/ (output_count >= 2 /\ has_docs)

\* Mutant of confidence_level: high asks for Documentation as well.
confidence_level_docs(has_log_success, output_count, has_docs) ==
    IF has_log_success /\ output_count >= 2 /\ has_docs THEN "high"
    ELSE IF has_log_success \/ (output_count >= 2 /\ has_docs) THEN "medium"
    ELSE "low"

\* The if/elif/else that sets confidence
confidence_level(has_log_success, output_count, has_docs) ==
    IF has_log_success /\ output_count >= 2 THEN "high"
    ELSE IF has_log_success \/ (output_count >= 2 /\ has_docs) THEN "medium"
    ELSE "low"

\* Mutant of check_transform_success: every marker is listed as missing.
check_transform_success_all_missing(clone, log) ==
    LET found   == IF clone.exists
                   THEN SelectSeq(required_outputs, LAMBDA m : m \in clone.items)
                   ELSE <<>>
        missing == required_outputs
        log_lower == Lower(log)
        log_success_message ==
            /\ log # NoFile
            /\ \E p \in 1..Len(success_phrases) : Contains(log_lower, success_phrases[p])
        log_validation_status ==
            /\ log # NoFile
            /\ Contains(log_lower, <<"validation", "status">>)
            /\ Contains(log_lower, <<"approved">>)
        output_count == Len(found)
        has_docs == InSeq("Documentation", found)
        is_success == success_decision(log_success_message, log_validation_status,
                                       output_count, has_docs)
        confidence == confidence_level(log_success_message, output_count, has_docs)
    IN  [is_success |-> is_success,
         confidence |-> confidence,
         outputs_found |-> found,
         outputs_missing |-> missing,
         log_success_message |-> log_success_message,
         log_validation_status |-> log_validation_status]

\* check_transform_success(clone_path, log_file_path): clone is the state of the
\* directory at clone_path, log the content of the file at log_file_path.
check_transform_success(clone, log) ==
    LET found   == IF clone.exists
                   THEN SelectSeq(required_outputs, LAMBDA m : m \in clone.items)
                   ELSE <<>>
        missing == IF clone.exists
                   THEN SelectSeq(required_outputs, LAMBDA m : m \notin clone.items)
                   ELSE <<>>
        log_lower == Lower(log)
        log_success_message ==
            /\ log # NoFile
            /\ \E p \in 1..Len(success_phrases) : Contains(log_lower, success_phrases[p])
        log_validation_status ==
            /\ log # NoFile
            /\ Contains(log_lower, <<"validation", "status">>)
            /\ Contains(log_lower, <<"approved">>)
        output_count == Len(found)
        has_docs == InSeq("Documentation", found)
        is_success == success_decision(log_success_message, log_validation_status,
                                       output_count, has_docs)
        confidence == confidence_level(log_success_message, output_count, has_docs)
    IN  [is_success |-> is_success,
         confidence |-> confidence,
         outputs_found |-> found,
         outputs_missing |-> missing,
         log_success_message |-> log_success_message,
         log_validation_status |-> log_validation_status]

\* The value of the evaluation variables before check_transform_success has returned
NoEval == [is_success |-> FALSE, confidence |-> "unset", outputs_found |-> <<>>,
           outputs_missing |-> <<>>, log_success_message |-> FALSE,
           log_validation_status |-> FALSE]

----------------------------------------------------------------------------
(* Status ledger *)

\* An entry without a "notes" key; update_registry_entry(notes=None)
NoNotes == [kind |-> "none", confidence |-> "", outputs |-> <<>>,
            log_confirms |-> FALSE, exit_error |-> FALSE, log_of |-> 0]

\* First index of the entry of repo_name in the list, 0 when there is none
FindEntry(repos, repo_name) ==
    IF \E k \in 1..Len(repos) : repos[k].repo_name = repo_name
    THEN CHOOSE k \in 1..Len(repos) :
            /\ repos[k].repo_name = repo_name
            /\ \A j \in 1..(k - 1) : repos[j].repo_name # repo_name
    ELSE 0

\* Mutant of update_registry_entry: notes are only ever replaced, never removed.
update_registry_entry_keep_notes(registry, repo_name, git_url, status, language, notes, date) ==
    LET k == FindEntry(registry, repo_name) IN
    IF k = 0
    THEN Append(registry, [repo_name |-> repo_name,
                           git_url |-> git_url,
                           language |-> language,
                           analysis_status |-> status,
                           analysis_date |-> date,
                           notes |-> notes])
    ELSE [registry EXCEPT ![k] =
            [@ EXCEPT !.analysis_status = status,
                      !.analysis_date = date,
                      !.language = IF language # "unknown" THEN language ELSE @,
                      !.notes = IF notes # NoNotes THEN notes ELSE @]]

\* Mutant of update_registry_entry: the search is left out and an entry is always added.
update_registry_entry_append(registry, repo_name, git_url, status, language, notes, date) ==
    Append(registry, [repo_name |-> repo_name,
                      git_url |-> git_url,
                      language |-> language,
                      analysis_status |-> status,
                      analysis_date |-> date,
                      notes |-> notes])

\* update_registry_entry(registry_data, repo_name, git_url, status, language, notes);
\* date is the value of datetime.now() at the call.
update_registry_entry(registry, repo_name, git_url, status, language, notes, date) ==
    LET k == FindEntry(registry, repo_name) IN
    IF k = 0
    THEN Append(registry, [repo_name |-> repo_name,
                           git_url |-> git_url,
                           language |-> language,
                           analysis_status |-> status,
                           analysis_date |-> date,
                           notes |-> notes])
    ELSE [registry EXCEPT ![k] =
            [@ EXCEPT !.analysis_status = status,
                      !.analysis_date = date,
                      !.language = IF language # "unknown" THEN language ELSE @,
                      !.notes = IF notes # NoNotes THEN notes
                                ELSE IF status = "analyzed" THEN NoNotes
                                ELSE @]]

\* load_registry(registry_path): the file's list of entries, empty when there is no file
load_registry(file) == file

\* save_registry(registry_path, registry_data): the new content of the file
save_registry(file, registry) == registry

\* discover_repos(): the ordered list of {name, git_url}
discover_repos == [n \in 1..NumRepos |-> [name |-> n, git_url |-> n]]

\* The entry of repo_name in a list of entries (a list without one gives NoEntry)
NoEntry == [repo_name |-> 0, git_url |-> 0, language |-> "", analysis_status |-> "absent",
            analysis_date |-> 0, notes |-> NoNotes]
Entry(registry, repo_name) ==
    LET k == FindEntry(registry, repo_name) IN
    IF k = 0 THEN NoEntry ELSE registry[k]

\* Number of entries of repo_name in a list of entries
EntryCount(registry, repo_name) ==
    Cardinality({k \in 1..Len(registry) : registry[k].repo_name = repo_name})

----------------------------------------------------------------------------
(* The external tool and the file system *)

\* What a fresh clone holds before the tool has run
RepoContent == {".git", "src"}

\* One execution of `atx custom def exec`: how it exits, what it leaves in the
\* working copy and what it writes to the log.  "raised" is subprocess.run raising
\* anything but CalledProcessError.
ToolRuns ==
    { [exit |-> "clean",  items |-> {"Documentation", ".aws", ".aws_cache"}, log |-> LogSuccess],
      [exit |-> "error",  items |-> {"Documentation", ".atx"},               log |-> LogError],
      [exit |-> "clean",  items |-> {".atx"},                                log |-> LogEmpty],
      [exit |-> "error",  items |-> {},                                      log |-> LogEmpty],
      [exit |-> "raised", items |-> {},                                      log |-> LogEmpty] }

transform_output_folders ==
    {".aws", "Documentation", ".atx", "transform_output", "analysis_output"}

\* item.name.startswith(".aws")
StartsWithAws(item) == item \in {".aws", ".aws_cache"}

\* The items of the working copy the copy loop of the finally block copies
CopiedItems(clone) ==
    IF clone.exists
    THEN {item \in clone.items :
            /\ item # ".git"
            /\ (item \in transform_output_folders \/ StartsWithAws(item))}
    ELSE {}

----------------------------------------------------------------------------
(* main() *)

VARIABLES
    disk,                \* repos/analysis_registry.yaml: its list of entries
    clones,              \* tmp/<repo_name>, per repository
    logs,                \* repos/<repo_name>_transform.log, per repository
    analysis_dirs,       \* repos/<repo_name>/analysis: whether the copy loop has put
                         \* anything into it (the collection specification has the paths)
    pc,                  \* where the process is: idle (never started), turn (top of
                         \* the for loop), invoke (the tool runs), finally, finalize,
                         \* exited (return or sys.exit), crashed (uncaught exception),
                         \* killed
    run,                 \* number of starts of the script so far; the clock of the run
    exit_code,           \* exit status of the process: "none", 0 or 1
    args_force,          \* args.force
    registry_data,       \* the in-memory registry
    repos,               \* repos_to_analyze
    skipped_repos,       \* skipped_repos
    i,                   \* position of the for loop in repos
    transform_succeeded, \* local of main
    log_file_path,       \* local of main: 0 while unbound, else the repository of the path
    ev,                  \* is_success, confidence, success_details
    disk0,               \* history: the registry file when the run started
    prev,                \* history: how the previous run ended
    acquired,            \* history: repositories git clone was run for in this run
    acquire_failed,      \* history: repositories whose acquisition failed in this run
    invoked,             \* history: repositories the tool was started for in this run
    evals,               \* history: completed evaluator calls per repository in this run
    ended,               \* history: repositories whose turn ended in this run
    call,                \* history: the arguments of the latest update_registry_entry
                         \* call of the ledger specification
    clone_path,          \* the collection specification: the files and directories of
                         \* one working copy, as paths below clone_path
    analysis_output_dir  \* the collection specification: the files and directories
                         \* below analysis_output_dir

vars == <<disk, clones, logs, analysis_dirs, pc, run, exit_code, args_force,
          registry_data, repos, skipped_repos, i, transform_succeeded, log_file_path,
          ev, disk0, prev, acquired, acquire_failed, invoked, evals, ended, call,
          clone_path, analysis_output_dir>>

side == <<call, clone_path, analysis_output_dir>>
trees == <<clone_path, analysis_output_dir>>
fs == <<clones, logs, analysis_dirs>>
locals == <<args_force, repos, skipped_repos, i>>
history == <<disk0, prev, acquired, acquire_failed, invoked, evals, ended>>

\* A directory tree without files and directories
NoTree == [files |-> {}, dirs |-> {}]

\* No call of the ledger specification yet
NoCall == [repo_name |-> 0, status |-> "", language |-> "", notes |-> NoNotes,
           existed |-> FALSE, old_notes |-> NoNotes]

Init ==
    /\ disk = <<>>
    /\ clones = [r \in RepoNames |-> NoDir]
    /\ logs = [r \in RepoNames |-> NoFile]
    /\ analysis_dirs = [r \in RepoNames |-> FALSE]
    /\ pc = "idle"
    /\ run = 0
    /\ exit_code = "none"
    /\ args_force = FALSE
    /\ registry_data = <<>>
    /\ repos = <<>>
    /\ skipped_repos = <<>>
    /\ i = 0
    /\ transform_succeeded = FALSE
    /\ log_file_path = 0
    /\ ev = NoEval
    /\ disk0 = <<>>
    /\ prev = "none"
    /\ acquired = {}
    /\ acquire_failed = {}
    /\ invoked = {}
    /\ evals = [r \in RepoNames |-> 0]
    /\ ended = {}
    /\ call = NoCall
    /\ clone_path = NoTree
    /\ analysis_output_dir = NoTree

\* datetime.now(): the clock is read once per run
Now == run

\* Mutant of is_skipped: --force is not looked at.
is_skipped_force_ignored(registry, repo_name, force) ==
    /\ FindEntry(registry, repo_name) # 0
    /\ Entry(registry, repo_name).analysis_status = "analyzed"

\* Mutant of is_skipped: --force is taken for granted.
is_skipped_never(registry, repo_name, force) == FALSE

\* The skip test of the filter loop: existing_entry and status == "analyzed" and not force
is_skipped(registry, repo_name, force) ==
    /\ FindEntry(registry, repo_name) # 0
    /\ Entry(registry, repo_name).analysis_status = "analyzed"
    /\ ~force

\* Mutant of mark_pending: only the first repository of the list is marked.
mark_pending_first(registry, list, date) ==
    IF list = <<>> THEN registry
    ELSE update_registry_entry(registry, Head(list).name, Head(list).git_url,
                               "pending", "unknown", NoNotes, date)

\* Mutant of mark_pending: every discovered repository is marked pending.
RECURSIVE mark_pending_all(_, _, _)
mark_pending_all(registry, list, date) ==
    LET RECURSIVE mark(_, _)
        mark(reg, rest) ==
            IF rest = <<>> THEN reg
            ELSE mark(update_registry_entry(reg, Head(rest).name, Head(rest).git_url,
                                            "pending", "unknown", NoNotes, date),
                      Tail(rest))
    IN  mark(registry, discover_repos)

\* The loop that marks repos_to_analyze as pending
RECURSIVE mark_pending(_, _, _)
mark_pending(registry, list, date) ==
    IF list = <<>> THEN registry
    ELSE mark_pending(
            update_registry_entry(registry, Head(list).name, Head(list).git_url,
                                  "pending", "unknown", NoNotes, date),
            Tail(list), date)

\* Start of main() up to the for loop: load, discover, filter, mark pending, save
StartRun(force) ==
    /\ UNCHANGED side
    /\ pc \in {"idle", "exited", "crashed", "killed"}
    /\ run < MaxRuns
    /\ LET loaded == load_registry(disk)
           found == discover_repos
           todo == SelectSeq(found, LAMBDA repo : ~is_skipped(loaded, repo.name, force))
           skip == SelectSeq(found, LAMBDA repo : is_skipped(loaded, repo.name, force))
           marked == mark_pending(loaded, todo, run + 1)
       IN  /\ run' = run + 1
           /\ args_force' = force
           /\ repos' = todo
           /\ skipped_repos' = [k \in 1..Len(skip) |-> skip[k].name]
           /\ disk0' = disk
           /\ prev' = IF pc = "exited" THEN (IF exit_code = 0 THEN "exit0" ELSE "exit1")
                      ELSE IF pc = "idle" THEN "none" ELSE pc
           /\ acquired' = {}
           /\ acquire_failed' = {}
           /\ invoked' = {}
           /\ evals' = [r \in RepoNames |-> 0]
           /\ ended' = {}
           /\ transform_succeeded' = FALSE
           /\ log_file_path' = 0
           /\ ev' = NoEval
           /\ IF todo = <<>>
              THEN /\ pc' = "exited"
                   /\ exit_code' = 0
                   /\ i' = 0
                   /\ registry_data' = loaded
                   /\ disk' = disk
              ELSE /\ pc' = "turn"
                   /\ exit_code' = "none"
                   /\ i' = 1
                   /\ registry_data' = marked
                   /\ disk' = save_registry(disk, marked)
    /\ UNCHANGED fs

\* The repository of the current turn
Repo == repos[i]

\* Mutant of mark_running: the entry is left as it is.
mark_running_skipped(registry, repo, date) == registry

\* update_registry_entry(registry_data, repo_name, repo_url, "running", language="unknown")
mark_running(registry, repo, date) ==
    update_registry_entry(registry, repo.name, repo.git_url, "running", "unknown",
                          NoNotes, date)

\* try block, acquisition succeeds: the stale clone is removed, git clone succeeds, the
\* entry is marked running and saved, the log file is opened for writing and the tool
\* is started.
AcquireOk ==
    /\ UNCHANGED side
    /\ pc = "turn"
    /\ LET marked == mark_running(registry_data, Repo, Now) IN
        /\ registry_data' = marked
        /\ disk' = save_registry(disk, marked)
    /\ clones' = [clones EXCEPT ![Repo.name] = Dir(RepoContent)]
    /\ log_file_path' = Repo.name
    /\ logs' = [logs EXCEPT ![Repo.name] = LogEmpty]
    /\ acquired' = acquired \cup {Repo.name}
    /\ invoked' = invoked \cup {Repo.name}
    /\ pc' = "invoke"
    /\ UNCHANGED <<analysis_dirs, run, exit_code, locals, transform_succeeded, ev,
                   disk0, prev, acquire_failed, evals, ended>>

\* try block, acquisition fails: git clone exits non-zero (CalledProcessError), or the
\* stale clone cannot be removed even after chmod (PermissionError); either is caught
\* and control goes to the finally block.
AcquireFail(cause) ==
    /\ UNCHANGED side
    /\ pc = "turn"
    /\ cause \in {"clone", "rmtree"}
    /\ cause = "rmtree" => clones[Repo.name].exists
    /\ clones' = IF cause = "clone" THEN [clones EXCEPT ![Repo.name] = NoDir] ELSE clones
    /\ acquired' = IF cause = "clone" THEN acquired \cup {Repo.name} ELSE acquired
    /\ acquire_failed' = acquire_failed \cup {Repo.name}
    /\ transform_succeeded' = FALSE
    /\ pc' = "finally"
    /\ UNCHANGED <<disk, logs, analysis_dirs, run, exit_code, locals, registry_data,
                   log_file_path, ev, disk0, prev, invoked, evals, ended>>

\* The tool ends: subprocess.run returns (exit status 0), raises CalledProcessError
\* (non-zero exit status) or raises something else.
ToolExit(t) ==
    /\ UNCHANGED side
    /\ pc = "invoke"
    /\ t \in ToolRuns
    /\ clones' = [clones EXCEPT ![Repo.name] = Dir(@.items \cup t.items)]
    /\ logs' = [logs EXCEPT ![Repo.name] = t.log]
    /\ transform_succeeded' = (t.exit = "clean")
    /\ pc' = "finally"
    /\ UNCHANGED <<disk, analysis_dirs, run, exit_code, locals, registry_data,
                   log_file_path, ev, history>>

\* finally block, first part: check_transform_success(clone_path, log_file_path) and
\* the copy loop.  Reading log_file_path while it is unbound raises UnboundLocalError
\* out of the finally block: the process ends with a traceback and exit status 1.
Evaluate ==
    /\ UNCHANGED side
    /\ pc = "finally"
    /\ IF log_file_path = 0
       THEN /\ pc' = "crashed"
            /\ exit_code' = 1
            /\ ended' = ended \cup {Repo.name}
            /\ UNCHANGED <<ev, analysis_dirs, evals>>
       ELSE /\ ev' = check_transform_success(clones[Repo.name], logs[log_file_path])
            /\ analysis_dirs' = [analysis_dirs EXCEPT
                                    ![Repo.name] = @ \/ CopiedItems(clones[Repo.name]) # {}]
            /\ evals' = [evals EXCEPT ![Repo.name] = @ + 1]
            /\ pc' = "finalize"
            /\ UNCHANGED <<exit_code, ended>>
    /\ UNCHANGED <<disk, clones, logs, run, locals, registry_data, transform_succeeded,
                   log_file_path, disk0, prev, acquired, acquire_failed, invoked>>

\* Mutant of final_status: the exit status decides alone.
final_status_exit_code(is_success, succeeded) ==
    IF succeeded THEN "analyzed" ELSE "failed"

\* The status of the if/elif/else that finalizes the entry
final_status(is_success, succeeded) ==
    IF is_success THEN "analyzed"
    ELSE IF succeeded THEN "analyzed"
    ELSE "failed"

\* The notes of the if/elif/else that finalizes the entry
final_notes(e, succeeded, repo_name) ==
    IF e.is_success
    THEN [kind |-> "Analysis completed", confidence |-> e.confidence,
          outputs |-> e.outputs_found, log_confirms |-> e.log_success_message,
          exit_error |-> ~succeeded, log_of |-> 0]
    ELSE IF succeeded
    THEN [kind |-> "Process completed but limited outputs found", confidence |-> "",
          outputs |-> e.outputs_found, log_confirms |-> FALSE, exit_error |-> FALSE,
          log_of |-> 0]
    ELSE [kind |-> "Transform execution failed", confidence |-> "",
          outputs |-> e.outputs_missing, log_confirms |-> FALSE, exit_error |-> FALSE,
          log_of |-> repo_name]

\* if not is_success and not transform_succeeded: sys.exit(1)
exits_with_error(is_success, succeeded) == ~is_success /\ ~succeeded

\* finally block, second part: the entry is finalized and saved, the clone is removed
\* (rmtree may fail, which is only reported), and the process exits with status 1 when
\* the turn truly failed; otherwise the loop goes on, and main returns after the last
\* repository.
Finalize(cleanup_ok) ==
    /\ UNCHANGED side
    /\ pc = "finalize"
    /\ cleanup_ok \in BOOLEAN
    /\ ~cleanup_ok => clones[Repo.name].exists
    /\ LET updated == update_registry_entry(
                          registry_data, Repo.name, Repo.git_url,
                          final_status(ev.is_success, transform_succeeded), "unknown",
                          final_notes(ev, transform_succeeded, Repo.name), Now)
       IN  /\ registry_data' = updated
           /\ disk' = save_registry(disk, updated)
    /\ clones' = IF cleanup_ok THEN [clones EXCEPT ![Repo.name] = NoDir] ELSE clones
    /\ ended' = ended \cup {Repo.name}
    /\ IF exits_with_error(ev.is_success, transform_succeeded)
       THEN /\ pc' = "exited"
            /\ exit_code' = 1
            /\ i' = i
       ELSE IF i < Len(repos)
       THEN /\ pc' = "turn"
            /\ exit_code' = exit_code
            /\ i' = i + 1
       ELSE /\ pc' = "exited"
            /\ exit_code' = 0
            /\ i' = i
    /\ UNCHANGED <<logs, analysis_dirs, run, args_force, repos, skipped_repos,
                   transform_succeeded, log_file_path, ev, disk0, prev, acquired,
                   acquire_failed, invoked, evals>>

\* The process is killed from outside during the blocking call of the tool: the files
\* stay as they are and the process is gone.
Kill ==
    /\ UNCHANGED side
    /\ pc = "invoke"
    /\ pc' = "killed"
    /\ UNCHANGED <<disk, fs, run, exit_code, locals, registry_data, transform_succeeded,
                   log_file_path, ev, history>>

Next ==
    \/ \E force \in BOOLEAN : StartRun(force)
    \/ AcquireOk
    \/ \E cause \in {"clone", "rmtree"} : AcquireFail(cause)
    \/ \E t \in ToolRuns : ToolExit(t)
    \/ Evaluate
    \/ \E cleanup_ok \in BOOLEAN : Finalize(cleanup_ok)
    \/ Kill

Spec == Init /\ [][Next]_vars

----------------------------------------------------------------------------
(* The evaluator on every working copy and log: the process stands at the start of *)
(* the finally block of the first turn of a run, with any subset of the markers in *)
(* the working copy (or no working copy), any log and either exit status.          *)

EvalInit ==
    /\ disk = mark_running(mark_pending(<<>>, discover_repos, 1), discover_repos[1], 1)
    /\ registry_data = disk
    /\ \E items \in SUBSET Markers, exists \in BOOLEAN :
            clones = [r \in RepoNames |->
                        IF r = 1
                        THEN (IF exists THEN Dir(RepoContent \cup items) ELSE NoDir)
                        ELSE NoDir]
    /\ \E log \in LogTexts \cup {NoFile} :
            logs = [r \in RepoNames |-> IF r = 1 THEN log ELSE NoFile]
    /\ analysis_dirs = [r \in RepoNames |-> FALSE]
    /\ pc = "finally"
    /\ run = 1
    /\ exit_code = "none"
    /\ args_force = FALSE
    /\ repos = discover_repos
    /\ skipped_repos = <<>>
    /\ i = 1
    /\ transform_succeeded \in BOOLEAN
    /\ log_file_path = 1
    /\ ev = NoEval
    /\ disk0 = <<>>
    /\ prev = "none"
    /\ acquired = {1}
    /\ acquire_failed = {}
    /\ invoked = {1}
    /\ evals = [r \in RepoNames |-> 0]
    /\ ended = {}
    /\ call = NoCall
    /\ clone_path = NoTree
    /\ analysis_output_dir = NoTree

EvalNext == Evaluate

SpecEval == EvalInit /\ [][EvalNext]_vars

----------------------------------------------------------------------------
(* Properties *)

Status(r) == Entry(disk, r).analysis_status

Terminal == {"analyzed", "failed"}

\* The process has ended by itself: return, sys.exit or an uncaught exception
ProcessEnded == pc \in {"exited", "crashed"}

\* C1: every repository whose turn has ended in this run (whatever the path through
\* the turn) has exactly one ledger entry, at analyzed or failed.
C1_TurnEndsTerminal ==
    \A r \in ended : EntryCount(disk, r) = 1 /\ Status(r) \in Terminal

\* C2: when the process has ended, a repository whose turn ended in failed is followed
\* only by repositories that had their turn and reached analyzed or failed.
C2_FailureDoesNotAbort ==
    ProcessEnded =>
        \A k \in 1..Len(repos) :
            (repos[k].name \in ended /\ Status(repos[k].name) = "failed") =>
                \A j \in (k + 1)..Len(repos) :
                    repos[j].name \in ended /\ Status(repos[j].name) \in Terminal

\* C3: a repository whose acquisition failed ends its turn at failed, with a note,
\* and the tool was not started for it.
C3_AcquisitionFailureFails ==
    \A r \in acquire_failed :
        r \in ended =>
            /\ Status(r) = "failed"
            /\ Entry(disk, r).notes # NoNotes
            /\ r \notin invoked

\* The ledger without its timestamps
StripDates(registry) == [k \in 1..Len(registry) |-> [registry[k] EXCEPT !.analysis_date = 0]]

\* The previous run ran to its exit
AfterCompletedRun == prev \in {"exit0", "exit1"}

\* C4 as stated: a run without force that follows a completed run over the same
\* repositories acquires no working copy, and ends with the ledger it started with,
\* timestamps aside.
C4_RerunIdempotent ==
    (AfterCompletedRun /\ ~args_force) =>
        /\ acquired = {}
        /\ ProcessEnded => StripDates(disk) = StripDates(disk0)

AllAnalyzed(registry) ==
    \A r \in RepoNames : Entry(registry, r).analysis_status = "analyzed"

\* C4 amended: a run without force that starts with every discovered repository at
\* analyzed acquires no working copy, starts no tool, leaves the ledger file as it was
\* (timestamps included) and exits with status 0; and a run without force puts every
\* discovered repository that is not at analyzed on its turn list.
C4_RerunIdempotentWhenAnalyzed ==
    /\ (pc # "idle" /\ ~args_force /\ AllAnalyzed(disk0)) =>
            /\ acquired = {}
            /\ invoked = {}
            /\ disk = disk0
            /\ pc = "exited" /\ exit_code = 0
    /\ (pc # "idle" /\ ~args_force) =>
            \A r \in RepoNames :
                Entry(disk0, r).analysis_status # "analyzed" =>
                    \E k \in 1..Len(repos) : repos[k].name = r

C4_Witness ==
    /\ run = 2 /\ prev = "exit0" /\ ~args_force
    /\ AllAnalyzed(disk0)
    /\ pc = "exited"

\* C5: in a run without force, a repository that was at analyzed when the run started
\* is on the skipped list, gets no clone and no tool run, and its ledger entry is the
\* one the run started with, at every point of the run.
C5_SkippedUntouched ==
    \A r \in RepoNames :
        (pc # "idle" /\ ~args_force /\ Entry(disk0, r).analysis_status = "analyzed") =>
            /\ InSeq(r, skipped_repos)
            /\ r \notin acquired
            /\ r \notin invoked
            /\ Entry(disk, r) = Entry(disk0, r)

\* A repository is skipped while another one of the run has been finalized
C5_Witness ==
    /\ ~args_force
    /\ \E r \in RepoNames :
        /\ Entry(disk0, r).analysis_status = "analyzed"
        /\ \E q \in ended : q # r /\ Status(q) \in Terminal /\ disk # disk0

\* C6: while the tool runs for a repository, and after a kill during that run, the
\* ledger file shows the repository at running.
C6_RunningPersistedBeforeInvoke ==
    pc \in {"invoke", "killed"} => Status(Repo.name) = "running"

C6_Witness ==
    pc = "killed" /\ Status(Repo.name) = "running" /\ Entry(disk0, Repo.name) # Entry(disk, Repo.name)

\* C7: in every turn that has ended, the evaluator has run to completion exactly once.
C7_EvaluatedOncePerTurn ==
    \A r \in ended : evals[r] = 1

\* The repository the finally block has just finalized (0 when there is none)
LastFinalized ==
    IF pc = "turn" /\ i > 1 THEN repos[i - 1].name
    ELSE IF pc = "exited" /\ ended # {} THEN repos[i].name
    ELSE 0

\* C8: right after a turn is finalized, the status is analyzed when the evaluator
\* reported success, analyzed when it did not but the tool exited cleanly, and failed
\* otherwise.
C8_FinalizeDecision ==
    LastFinalized # 0 =>
        /\ ev.is_success => Status(LastFinalized) = "analyzed"
        /\ (~ev.is_success /\ transform_succeeded) => Status(LastFinalized) = "analyzed"
        /\ (~ev.is_success /\ ~transform_succeeded) => Status(LastFinalized) = "failed"

\* A tool error masked by valid output ends at analyzed
C8_Witness ==
    /\ LastFinalized # 0
    /\ LastFinalized \in invoked
    /\ ev.is_success /\ ~transform_succeeded
    /\ Status(LastFinalized) = "analyzed"

\* C9: when the process has ended, its exit status is non-zero exactly when a
\* repository of the run ended its turn in failed.
C9_ExitStatus ==
    ProcessEnded =>
        ((exit_code # 0) <=> (\E r \in ended : Status(r) = "failed"))

\* The recognized markers present in the working copy of the current turn
MarkersPresent ==
    IF clones[Repo.name].exists THEN clones[Repo.name].items \cap Markers ELSE {}

\* The log the evaluator was given says, in any letter case, one of the success phrases
LogDeclaresSuccess ==
    /\ logs[log_file_path] # NoFile
    /\ \E p \in 1..Len(success_phrases) :
            Contains(Lower(logs[log_file_path]), success_phrases[p])

\* C10: is_success is: the log declares success, or at least two markers are present
\* and Documentation is one of them; whatever the exit status and the validation text.
C10_SuccessDecision ==
    pc = "finalize" =>
        (ev.is_success <=>
            (LogDeclaresSuccess \/
                (Cardinality(MarkersPresent) >= 2 /\ "Documentation" \in MarkersPresent)))

\* One marker that is not Documentation, a log that reports an approved validation
\* status and no success phrase: not a success
C10_Witness ==
    /\ pc = "finalize"
    /\ Cardinality(MarkersPresent) = 1 /\ "Documentation" \notin MarkersPresent
    /\ ev.log_validation_status
    /\ transform_succeeded
    /\ ~ev.is_success


\* The fallback condition: at least two markers are present, Documentation among them
TwoMarkersWithDocs ==
    Cardinality(MarkersPresent) >= 2 /\ "Documentation" \in MarkersPresent

\* C11: confidence is high when the log declares success and at least two markers are
\* present; failing that, medium when exactly one of "the log declares success" and
\* "at least two markers with Documentation" holds; and low in every other case.
C11_ConfidenceLevel ==
    pc = "finalize" =>
        LET high == LogDeclaresSuccess /\ Cardinality(MarkersPresent) >= 2
            one  == LogDeclaresSuccess # TwoMarkersWithDocs
        IN  /\ high => ev.confidence = "high"
            /\ (~high /\ one) => ev.confidence = "medium"
            /\ (~high /\ ~one) => ev.confidence = "low"

\* Documentation, one other marker and the success phrase in the log, after the tool
\* exited non-zero: success with high confidence
C11_Witness ==
    /\ pc = "finalize"
    /\ MarkersPresent = {"Documentation", ".atx"}
    /\ logs[log_file_path] = LogSuccess
    /\ ~transform_succeeded
    /\ ev.is_success /\ ev.confidence = "high"


----------------------------------------------------------------------------
(* The ledger under any sequence of update_registry_entry calls: the registry is  *)
(* loaded from a missing file and then upserted in any order and any number of    *)
(* times.  SpecLedger upserts any repository name with any status, with or        *)
(* without notes; SpecNotes upserts one repository with any status, language and  *)
(* notes.                                                                         *)

Statuses == {"pending", "running", "analyzed", "failed"}

Languages == {"unknown", "java"}

\* The notes a caller passes: none, the notes of a failed turn, the notes of a success
CallNotes(repo_name) ==
    { NoNotes,
      final_notes(check_transform_success(NoDir, NoFile), FALSE, repo_name),
      final_notes(check_transform_success(Dir({"Documentation", ".aws"}), LogSuccess),
                  TRUE, repo_name) }

LedgerInit ==
    /\ disk = <<>>
    /\ clones = [r \in RepoNames |-> NoDir]
    /\ logs = [r \in RepoNames |-> NoFile]
    /\ analysis_dirs = [r \in RepoNames |-> FALSE]
    /\ pc = "ledger"
    /\ run = 1
    /\ exit_code = "none"
    /\ args_force = FALSE
    /\ registry_data = load_registry(disk)
    /\ repos = <<>>
    /\ skipped_repos = <<>>
    /\ i = 0
    /\ transform_succeeded = FALSE
    /\ log_file_path = 0
    /\ ev = NoEval
    /\ disk0 = <<>>
    /\ prev = "none"
    /\ acquired = {}
    /\ acquire_failed = {}
    /\ invoked = {}
    /\ evals = [r \in RepoNames |-> 0]
    /\ ended = {}
    /\ call = NoCall
    /\ clone_path = NoTree
    /\ analysis_output_dir = NoTree

\* One call registry_data = update_registry_entry(registry_data, ...)
Upsert(repo_name, status, language, notes) ==
    /\ pc = "ledger"
    /\ registry_data' = update_registry_entry(registry_data, repo_name, repo_name, status,
                                              language, notes, Now)
    /\ call' = [repo_name |-> repo_name, status |-> status, language |-> language,
                notes |-> notes, existed |-> FindEntry(registry_data, repo_name) # 0,
                old_notes |-> Entry(registry_data, repo_name).notes]
    /\ UNCHANGED <<disk, fs, pc, run, exit_code, locals, transform_succeeded,
                   log_file_path, ev, history, trees>>

LedgerNext ==
    \E repo_name \in RepoNames, status \in Statuses :
        \E notes \in {NoNotes, final_notes(NoEval, FALSE, repo_name)} :
            Upsert(repo_name, status, "unknown", notes)

SpecLedger == LedgerInit /\ [][LedgerNext]_vars

NotesNext ==
    \E status \in Statuses, language \in Languages :
        \E notes \in CallNotes(discover_repos[1].name) :
            Upsert(discover_repos[1].name, status, language, notes)

SpecNotes == LedgerInit /\ [][NotesNext]_vars

\* C12: after any sequence of upserts on a ledger without duplicates, no repository
\* name has two entries, and an upsert of a name that had an entry does not add one.
C12_OneEntryPerRepo ==
    /\ [](\A r \in RepoNames : EntryCount(registry_data, r) <= 1)
    /\ [](Len(registry_data) <= NumRepos)
    /\ [][call'.existed => Len(registry_data') = Len(registry_data)]_vars

\* An upsert has changed the status of an entry that existed, in a full ledger
C12_Witness ==
    /\ call.existed
    /\ Len(registry_data) = NumRepos
    /\ Entry(registry_data, call.repo_name).analysis_status = call.status
    /\ call.status = "failed"


\* A repository that was at analyzed when the run the process is in was started with
\* --force
ForcedAgain(r) == args_force /\ pc # "idle" /\ Entry(disk0, r).analysis_status = "analyzed"

\* r is on the turn list
OnTurnList(r) == \E k \in 1..Len(repos) : repos[k].name = r

\* C13 as stated: with force, a repository at analyzed is on the turn list and its entry
\* goes analyzed -> pending -> running -> analyzed or failed: it is pending until it is
\* set to running (which AcquireOk does when it adds the repository to invoked), running
\* until its turn ends, and terminal only after it was running.
C13_ForcedSequence ==
    \A r \in RepoNames :
        ForcedAgain(r) =>
            LET status == Status(r) IN
            /\ OnTurnList(r)
            /\ status = "pending" => r \notin invoked
            /\ status = "running" => (r \in invoked /\ r \notin ended)
            /\ status \notin {"pending", "running"} =>
                    (status \in Terminal /\ r \in invoked /\ r \in ended)

\* C13 amended: with force, a repository at analyzed is on the turn list and is pending
\* after the start; its entry then goes pending -> running -> analyzed or failed, except
\* in a turn whose acquisition failed, where it never shows running and leaves pending
\* only for analyzed or failed.
C13_ForcedSequenceOrAcquisitionFailure ==
    \A r \in RepoNames :
        ForcedAgain(r) =>
            LET status == Status(r) IN
            /\ OnTurnList(r)
            /\ status = "pending" => r \notin invoked
            /\ status = "running" =>
                    (r \in invoked /\ r \notin ended /\ r \notin acquire_failed)
            /\ status \notin {"pending", "running"} =>
                    /\ status \in Terminal
                    /\ r \in ended
                    /\ r \in invoked \/ r \in acquire_failed
            /\ r \in acquire_failed => r \notin invoked

\* A forced repository has gone through running to a terminal status
C13_Witness ==
    \E r \in RepoNames :
        /\ ForcedAgain(r)
        /\ r \in invoked /\ r \in ended
        /\ Status(r) = "failed"


\* ---------------------------------------------------------------------------
\* save_registry step by step: open(registry_path, 'w') truncates the file, yaml.dump
\* writes the entries in order, leaving the with block closes the file.  disk is the
\* file, disk0 the ledger it held before the save, registry_data the ledger being saved.

\* open(registry_path, 'w')
SaveOpen ==
    /\ pc = "ledger"
    /\ registry_data # disk
    /\ pc' = "save"
    /\ disk0' = disk
    /\ disk' = <<>>
    /\ UNCHANGED <<fs, run, exit_code, locals, registry_data, transform_succeeded,
                   log_file_path, ev, prev, acquired, acquire_failed, invoked, evals,
                   ended, side>>

\* yaml.dump reaches the file one entry further
SaveWrite ==
    /\ pc = "save"
    /\ Len(disk) < Len(registry_data)
    /\ disk' = Append(disk, registry_data[Len(disk) + 1])
    /\ UNCHANGED <<fs, pc, run, exit_code, locals, registry_data, transform_succeeded,
                   log_file_path, ev, history, side>>

\* the with block is left
SaveClose ==
    /\ pc = "save"
    /\ disk = save_registry(disk, registry_data)
    /\ pc' = "ledger"
    /\ disk0' = disk
    /\ UNCHANGED <<disk, fs, run, exit_code, locals, registry_data, transform_succeeded,
                   log_file_path, ev, prev, acquired, acquire_failed, invoked, evals,
                   ended, side>>

\* the process is killed inside save_registry
SaveKill ==
    /\ pc = "save"
    /\ pc' = "killed"
    /\ UNCHANGED <<disk, fs, run, exit_code, locals, registry_data, transform_succeeded,
                   log_file_path, ev, history, side>>

\* an update of the ledger in memory; main saves after every status transition
SaveUpsert ==
    /\ registry_data = disk
    /\ LedgerNext

SaveNext ==
    \/ SaveUpsert
    \/ SaveOpen
    \/ SaveWrite
    \/ SaveClose
    \/ SaveKill

SpecSave == LedgerInit /\ [][SaveNext]_vars

\* what a reader gets from the file
Observed == load_registry(disk)

\* C15: while save_registry runs, and after a kill inside it, the file holds the complete
\* previous ledger or the complete new ledger.
C15_AtomicSave ==
    pc \in {"save", "killed"} => (Observed = disk0 \/ Observed = registry_data)

\* C14: after a kill the file still shows the terminal status and the notes of every
\* repository whose entry was terminal in the last saved ledger and is not touched by
\* the update in flight.
C14_CrashConsistency ==
    pc = "killed" =>
        \A r \in RepoNames :
            ( /\ FindEntry(disk0, r) # 0
              /\ Entry(disk0, r).analysis_status \in Terminal
              /\ FindEntry(registry_data, r) # 0
              /\ Entry(registry_data, r) = Entry(disk0, r) ) =>
            /\ FindEntry(disk, r) # 0
            /\ Entry(disk, r).analysis_status = Entry(disk0, r).analysis_status
            /\ Entry(disk, r).notes = Entry(disk0, r).notes


\* C16: when a turn ends, the working copy of its repository is gone unless the removal
\* of the finally block was tried and failed; and a failed removal changes neither the
\* status written for the repository nor the move to the next repository.
C16_WorkingCopyLifetime ==
    [][ /\ \A r \in RepoNames :
            (r \in ended' /\ r \notin ended /\ clones'[r].exists) => pc = "finalize"
        /\ \A r \in RepoNames :
            (pc = "finalize" /\ r = Repo.name /\ r \in ended' /\ clones'[r].exists) =>
                /\ Status(r)' = final_status(ev.is_success, transform_succeeded)
                /\ (~exits_with_error(ev.is_success, transform_succeeded) /\ i < Len(repos))
                        => (pc' = "turn" /\ i' = i + 1) ]_vars


\* The names on the turn list
TurnList == { repos[k].name : k \in 1..Len(repos) }

\* The names the filter loop skipped
Skipped == { skipped_repos[k] : k \in 1..Len(skipped_repos) }

\* C17: from the start of a run on, the saved ledger has an entry in a defined status for
\* every discovered repository; before the first acquisition the repositories of the
\* turn list are pending and the skipped ones analyzed.
C17_InitialPending ==
    /\ pc # "idle" =>
        \A k \in 1..Len(discover_repos) :
            /\ \E j \in 1..Len(disk) :
                /\ disk[j].repo_name = discover_repos[k].name
                /\ disk[j].analysis_status \in Statuses
            /\ \/ \E j \in 1..Len(repos) : repos[j].name = discover_repos[k].name
               \/ \E j \in 1..Len(skipped_repos) : skipped_repos[j] = discover_repos[k].name
    /\ (pc = "turn" /\ i = 1) =>
        /\ acquired = {} /\ acquire_failed = {} /\ invoked = {}
        /\ \A r \in TurnList : Status(r) = "pending"
        /\ \A r \in Skipped : Status(r) = "analyzed"

\* A run is about to acquire its first working copy, with one repository skipped and
\* one on the turn list
C17_Witness ==
    /\ pc = "turn" /\ i = 1
    /\ Skipped # {}
    /\ TurnList # {}
    /\ \E r \in TurnList : Entry(disk0, r).analysis_status \in {"absent", "failed"}


\* C18: on an existing entry, status analyzed without notes removes the stored notes and
\* supplied notes replace them, so an entry that was just set to analyzed carries the
\* notes of that call or none; the language changes only to a supplied non-default one.
C18_UpsertNotes ==
    /\ [](call.existed =>
            LET entry == Entry(registry_data, call.repo_name) IN
            /\ (call.status = "analyzed" /\ call.notes = NoNotes) => entry.notes = NoNotes
            /\ call.notes # NoNotes => entry.notes = call.notes
            /\ call.status = "analyzed" => entry.notes = call.notes)
    /\ [][call'.existed =>
            Entry(registry_data', call'.repo_name).language =
                IF call'.language # "unknown" THEN call'.language
                ELSE Entry(registry_data, call'.repo_name).language]_vars

\* An entry that carried the notes of a failed outcome and a language was set to analyzed
\* without notes and without a language
C18_Witness ==
    /\ call.existed
    /\ call.status = "analyzed" /\ call.notes = NoNotes /\ call.language = "unknown"
    /\ call.old_notes.kind = "Transform execution failed"
    /\ Entry(registry_data, call.repo_name).notes = NoNotes
    /\ Entry(registry_data, call.repo_name).language = "java"


\* ---------------------------------------------------------------------------
\* The copy loop of the finally block on file paths.  A tree is the set of its file paths
\* and the set of its directory paths, each path a sequence of names below the root.

FileNames == {"a.md", "b.md"}

\* What a working copy can hold under one top-level name
ItemShapes ==
    {[kind |-> "absent", children |-> {}], [kind |-> "file", children |-> {}]}
        \cup {[kind |-> "dir", children |-> c] : c \in SUBSET FileNames}

\* The tree of a working copy, given the shape of each of its top-level names
TreeOf(shape) ==
    [files |-> {<<item>> : item \in {x \in DOMAIN shape : shape[x].kind = "file"}}
                \cup UNION {{<<item, c>> : c \in shape[item].children} : item \in DOMAIN shape},
     dirs  |-> {<<item>> : item \in {x \in DOMAIN shape : shape[x].kind = "dir"}}]

\* The working copies of the collection specification: two marker names of any shape,
\* and src, which the copy loop passes over
WorkingCopies ==
    { TreeOf([item \in {"Documentation", ".aws_cache", "src"} |->
                IF item = "Documentation" THEN d
                ELSE IF item = ".aws_cache" THEN a
                ELSE s]) :
        d \in ItemShapes, a \in ItemShapes,
        s \in {[kind |-> "absent", children |-> {}], [kind |-> "dir", children |-> {"a.md"}]} }

\* shutil.copy2(src, dst) for a file named name: into dst when dst is a directory, else
\* onto dst; the write raises when the target is a directory
copy2(tree, name, dst) ==
    LET target == IF dst \in tree.dirs THEN Append(dst, name) ELSE dst IN
    IF target \in tree.dirs THEN tree
    ELSE [tree EXCEPT !.files = @ \cup {target}]

\* Mutant of copytree: the destination directory is replaced by the source directory.
copytree_replace(tree, src, item) ==
    [files |-> {p \in tree.files : p[1] # item}
                  \cup {p \in src.files : Len(p) = 2 /\ p[1] = item},
     dirs  |-> tree.dirs \cup {<<item>>}]

\* shutil.copytree(item, dest_item, dirs_exist_ok=True): os.makedirs(dst, exist_ok=True)
\* raises when dest_item is a file (the except of the loop reports it); otherwise every
\* file of the directory is copied with copy2 and nothing is removed
copytree(tree, src, item) ==
    IF <<item>> \in tree.files THEN tree
    ELSE LET RECURSIVE copy_files(_, _)
             copy_files(t, names) ==
                 IF names = {} THEN t
                 ELSE LET c == CHOOSE x \in names : TRUE
                      IN  copy_files(copy2(t, c, <<item, c>>), names \ {c})
         IN  copy_files([tree EXCEPT !.dirs = @ \cup {<<item>>}],
                        {p[2] : p \in {q \in src.files : Len(q) = 2 /\ q[1] = item}})

\* for item in clone_path.iterdir(): the body of the copy loop for the items named
RECURSIVE copy_loop(_, _, _)
copy_loop(tree, src, items) ==
    IF items = {} THEN tree
    ELSE LET item == CHOOSE x \in items : TRUE
             copied == IF item = ".git" THEN tree
                       ELSE IF item \in transform_output_folders \/ StartsWithAws(item)
                       THEN IF <<item>> \in src.dirs
                            THEN copytree(tree, src, item)
                            ELSE copy2(tree, item, <<item>>)
                       ELSE tree
         IN  copy_loop(copied, src, items \ {item})

\* clone_path.iterdir()
TopLevel(tree) == {p[1] : p \in {q \in tree.files \cup tree.dirs : Len(q) = 1}}

CollectInit ==
    /\ disk = <<>>
    /\ clones = [r \in RepoNames |-> NoDir]
    /\ logs = [r \in RepoNames |-> NoFile]
    /\ analysis_dirs = [r \in RepoNames |-> FALSE]
    /\ pc = "collect"
    /\ run = 1
    /\ exit_code = "none"
    /\ args_force = FALSE
    /\ registry_data = <<>>
    /\ repos = <<>>
    /\ skipped_repos = <<>>
    /\ i = 0
    /\ transform_succeeded = FALSE
    /\ log_file_path = 0
    /\ ev = NoEval
    /\ disk0 = <<>>
    /\ prev = "none"
    /\ acquired = {}
    /\ acquire_failed = {}
    /\ invoked = {}
    /\ evals = [r \in RepoNames |-> 0]
    /\ ended = {}
    /\ call = NoCall
    /\ clone_path \in WorkingCopies
    /\ analysis_output_dir = NoTree

\* The copy loop runs on the working copy
Collect ==
    /\ pc = "collect"
    /\ analysis_output_dir' = copy_loop(analysis_output_dir, clone_path, TopLevel(clone_path))
    /\ UNCHANGED <<disk, fs, pc, run, exit_code, locals, registry_data, transform_succeeded,
                   log_file_path, ev, history, call, clone_path>>

\* A later turn of the same repository: the working copy is another one
NewClone(tree) ==
    /\ pc = "collect"
    /\ tree \in WorkingCopies
    /\ clone_path' = tree
    /\ UNCHANGED <<disk, fs, pc, run, exit_code, locals, registry_data, transform_succeeded,
                   log_file_path, ev, history, call, analysis_output_dir>>

CollectNext ==
    \/ Collect
    \/ \E tree \in WorkingCopies : NewClone(tree)

SpecCollect == CollectInit /\ [][CollectNext]_vars

\* C19: a collection never removes a file or a directory from the destination.
C19_AdditiveCollection ==
    [][ /\ analysis_output_dir.files \subseteq analysis_output_dir'.files
        /\ analysis_output_dir.dirs \subseteq analysis_output_dir'.dirs ]_vars

\* The destination holds a file of an earlier collection next to the file of the latest
\* one, in a directory both working copies had
C19_Witness ==
    /\ <<"Documentation", "b.md">> \in clone_path.files
    /\ <<"Documentation", "a.md">> \notin clone_path.files
    /\ <<"Documentation", "a.md">> \in analysis_output_dir.files
    /\ <<"Documentation", "b.md">> \in analysis_output_dir.files
    /\ <<"src">> \in clone_path.dirs
    /\ <<"src">> \notin analysis_output_dir.dirs


\* The status changes of an entry inside a run
LinearChanges ==
    { <<"pending", "running">>, <<"running", "analyzed">>, <<"running", "failed">>,
      <<"pending", "failed">> }

\* C20: an entry changes to pending only at the start of a run, and inside the run only
\* pending -> running, running -> analyzed, running -> failed and pending -> failed.
C20_LinearStatusSequence ==
    [][\A r \in RepoNames :
        Status(r)' # Status(r) =>
            IF run' # run
            THEN Status(r)' = "pending"
            ELSE <<Status(r), Status(r)'>> \in LinearChanges]_vars


\* The members of a sequence
Range(s) == {s[k] : k \in 1..Len(s)}

\* C21: after every call of check_transform_success, outputs_found and outputs_missing
\* are disjoint and together hold the five markers; for a working copy without markers
\* and an empty log the result is not a success, of low confidence, with all five
\* markers missing.
C21_MarkerPartition ==
    pc = "finalize" =>
        /\ Range(ev.outputs_found) \cap Range(ev.outputs_missing) = {}
        /\ Range(ev.outputs_found) \cup Range(ev.outputs_missing) = Markers
        /\ (MarkersPresent = {} /\ logs[log_file_path] = LogEmpty) =>
                /\ ~ev.is_success
                /\ ev.confidence = "low"
                /\ Range(ev.outputs_missing) = Markers

\* C21 amended: outputs_found and outputs_missing are always disjoint; when the working
\* directory exists they hold the five markers between them, found being the markers
\* present; when it does not exist both are empty.  For an existing working copy without
\* markers and an empty log the result is not a success, of low confidence, with all
\* five markers missing.
C21_MarkerPartitionWhenDirectoryExists ==
    pc = "finalize" =>
        /\ Range(ev.outputs_found) \cap Range(ev.outputs_missing) = {}
        /\ clones[Repo.name].exists =>
                /\ Range(ev.outputs_found) = MarkersPresent
                /\ Range(ev.outputs_missing) = Markers \ MarkersPresent
        /\ ~clones[Repo.name].exists =>
                /\ ev.outputs_found = <<>>
                /\ ev.outputs_missing = <<>>
        /\ (clones[Repo.name].exists /\ MarkersPresent = {}
                /\ logs[log_file_path] = LogEmpty) =>
                /\ ~ev.is_success
                /\ ev.confidence = "low"
                /\ Range(ev.outputs_missing) = Markers

\* The evaluator has been called for a working directory that does not exist
C21_Witness ==
    /\ pc = "finalize"
    /\ ~clones[Repo.name].exists
    /\ logs[log_file_path] = LogEmpty
    /\ ev.outputs_missing = <<>>
    /\ ~ev.is_success /\ ev.confidence = "low"


\* C22: the evaluation a turn is finalized with was made on the log file and the working
\* directory of the repository of that turn.
C22_OwnEvidenceOnly ==
    pc = "finalize" =>
        /\ log_file_path = Repo.name
        /\ ev = check_transform_success(clones[Repo.name], logs[Repo.name])

====
